---- MODULE Spec2Model ----
(***************************************************************************)
(* ZipRecruiter scraper (main.py): HTTPClient.fetch's strategy fallback,   *)
(* the recursive pagination walk of load_links, the asyncio.gather fan-out *)
(* of process_link over the links, and the CSV sink.                       *)
(*                                                                         *)
(* The program runs on one asyncio event loop.  A coroutine runs without   *)
(* interleaving until it awaits real I/O: fetch_tls calls the blocking     *)
(* tls_client session and never suspends, fetch_aiohttp and fetch_httpx    *)
(* suspend, save_row is blocking file I/O, and run suspends in gather.     *)
(***************************************************************************)
EXTENDS Naturals, Sequences, FiniteSets, TLC

\* Model bounds: the number of process_link tasks one run may create, and the
\* largest page number a next link may carry.
MaxTasks == 3
MaxPage == 2

\* Bounds of the check of the CSV sink alone: CSVWriter objects constructed on
\* one path, and rows saved to it.
MaxWriters == 2
MaxRows == 4

VARIABLES
    pc,         \* where run() is: "load_links", "gather", "returned", "closed"
    q,          \* index in SKILLS of the query run() is at
    walk,       \* the innermost get_links frame of the current walk, with
                \* the `links` of the frame that awaits it
    job_links,  \* self.job_links
    tasks,      \* tasks[k]: the process_link tasks run() gathered for query k
    csv,        \* the output file: whether it exists, and its lines
    writers,    \* the number of CSVWriter objects constructed on its path
    found,      \* found[k]: the links extracted from the pages of query k's walk
    walkEnd,    \* walkEnd[k]: how the walk of query k ended
    call        \* one HTTPClient.fetch call followed strategy by strategy

vars == <<pc, q, walk, job_links, tasks, csv, writers, found, walkEnd, call>>

----------------------------------------------------------------------------
\* Config and the values the program handles

SKILLS == <<"aws", "python">>

Strategies == <<"tls", "aiohttp", "httpx">>

\* URLs are opaque strings that are only compared for equality: they are
\* numbered in the order the site first serves them.
Urls == 1..MaxTasks

Pages == 1..MaxPage

\* What a fetch_<strategy> coroutine returns: None after a caught transport
\* error, or response.text, which may be the empty string.
None == [t |-> "None"]

Str(s) == [t |-> "str", s |-> s]

Texts == {"", "htmlA", "htmlB"}

StrategyResults == {None} \cup {Str(s) : s \in Texts}

\* what a strategy returns for a page request
PageResults == {None, Str(""), Str("htmlA")}

SeqsUpTo(S, n) == UNION {[1..k -> S] : k \in 0..n}

FirstServed(s) == \A i \in 1..Len(s) : s[i] = 1 \/ \E j \in 1..(i - 1) : s[j] + 1 >= s[i]

Range(s) == {s[k] : k \in 1..Len(s)}

\* a faulty variant of the test: `if content is not None`
TruthyNotNone(content) == content.t = "str"

\* `if content:` -- None and "" are falsy
Truthy(content) == content.t = "str" /\ content.s # ""

\* a faulty variant of the loop: every strategy is tried, the last one decides
fetch_step_last(i, content) ==
    IF i < Len(Strategies) THEN [k |-> "next", i |-> i + 1]
    ELSE IF Truthy(content) THEN [k |-> "return", content |-> content]
    ELSE [k |-> "raise"]

\* a faulty variant of the loop: a strategy that yields nothing is tried again
fetch_step_retry(i, content) ==
    IF Truthy(content) THEN [k |-> "return", content |-> content]
    ELSE [k |-> "next", i |-> i]

\* One round of the loop of HTTPClient.fetch, strategy number i having
\* returned content: return it, go on to the next strategy, or raise.
fetch_step(i, content) ==
    IF Truthy(content) THEN [k |-> "return", content |-> content]
    ELSE IF i < Len(Strategies) THEN [k |-> "next", i |-> i + 1]
    ELSE [k |-> "raise"]

\* What BeautifulSoup finds in a listing page: the hrefs of the
\* a.jobList-title anchors (hrefs FALSE: an anchor without href), and the
\* a[rel=next] link: absent, with an integer text, or with another text.
NextLinks == {[t |-> "absent"], [t |-> "text"]} \cup {[t |-> "int", n |-> n] : n \in Pages}

ListingPages(room) ==
    [links : SeqsUpTo(Urls, room), hrefs : {TRUE}, next : NextLinks]
    \cup [links : SeqsUpTo(Urls, room) \ {<<>>}, hrefs : {FALSE}, next : NextLinks]

\* The pages the site may serve next: they carry no more links than the
\* bound on the tasks leaves room for (every link in job_links becomes a task
\* of the gather of this query and of each later one).
TasksCreated ==
    LET sum[k \in 0..Len(SKILLS)] == IF k = 0 THEN 0 ELSE sum[k - 1] + Len(tasks[k])
    IN sum[Len(SKILLS)]

Gathers == Len(SKILLS) - q + 1

Room == IF TasksCreated + Gathers * Len(job_links) >= MaxTasks THEN 0
        ELSE (MaxTasks - TasksCreated - Gathers * Len(job_links)) \div Gathers

Served == {page \in ListingPages(Room) : FirstServed(job_links \o page.links)}

\* What get_details finds in a detail page: the ld+json script (absent,
\* unparsable or lacking a key, or complete) and the reference div.
DetailPages == [ld_json : {"absent", "malformed", "complete"}, reference : BOOLEAN]

fieldnames ==
    <<"Domain", "PostUrl", "JobID", "Title", "City", "State", "Speciality",
      "JobType", "JobDetails", "Industry", "Company", "PostedOn", "SalaryFrom",
      "SalaryUpto", "PayoutTerm", "IsEstimatedSalary", "ScrapedOn">>

Header == [header |-> fieldnames]

\* the path of the output file with no file at it
NoFile == [exists |-> FALSE, lines |-> <<>>]

\* a faulty variant: the header is written with mode 'w' whether or not the
\* file exists
initialize_file_always(file) == [exists |-> TRUE, lines |-> <<Header>>]

\* CSVWriter.initialize_file: the header is written when no file exists
initialize_file(file) ==
    IF ~file.exists THEN [exists |-> TRUE, lines |-> <<Header>>] ELSE file

\* a faulty variant: the file is opened with mode 'w'
save_row_truncate(file, data) == [exists |-> TRUE, lines |-> <<data>>]

\* CSVWriter.save_row: the file is opened with mode 'a' and the row written,
\* in one blocking call
save_row(file, data) == [exists |-> TRUE, lines |-> Append(file.lines, data)]

\* a faulty variant: the job id read off the reference div is put in the dict
try_block_job_id(url, page) ==
    CASE page.ld_json = "complete" ->
            [t |-> "dict", Domain |-> "ZipRecruiter", PostUrl |-> url,
             JobID |-> IF page.reference THEN "job_id" ELSE "",
             Title |-> "title", City |-> "city", State |-> "state", Speciality |-> "",
             JobType |-> "type", JobDetails |-> "description", Industry |-> "",
             Company |-> "company", PostedOn |-> "date", SalaryFrom |-> "",
             SalaryUpto |-> "", PayoutTerm |-> "", IsEstimatedSalary |-> FALSE,
             ScrapedOn |-> "now"]
      [] page.ld_json = "absent" -> None
      [] page.ld_json = "malformed" -> [t |-> "raise"]

\* The try block of get_details on a fetched page: the dict, None when the
\* page has no ld+json script (the block ends without a return), or an
\* exception (json.loads fails, a key is missing).
try_block(url, page) ==
    CASE page.ld_json = "complete" ->
            [t |-> "dict", Domain |-> "ZipRecruiter", PostUrl |-> url, JobID |-> "",
             Title |-> "title", City |-> "city", State |-> "state", Speciality |-> "",
             JobType |-> "type", JobDetails |-> "description", Industry |-> "",
             Company |-> "company", PostedOn |-> "date", SalaryFrom |-> "",
             SalaryUpto |-> "", PayoutTerm |-> "", IsEstimatedSalary |-> FALSE,
             ScrapedOn |-> "now"]
      [] page.ld_json = "absent" -> None
      [] page.ld_json = "malformed" -> [t |-> "raise"]

\* a faulty variant: get_details without the except clause
get_details_uncaught(url, page) == try_block(url, page)

\* get_details after the fetch: `except Exception` logs the exception of the
\* try block and returns None
get_details(url, page) ==
    LET details == try_block(url, page) IN
    IF details.t = "raise" THEN None ELSE details

\* the body of a response that was not received
NoPage == [ld_json |-> "absent", reference |-> FALSE]

Pending == {"new", "aiohttp", "httpx"}

Raised == {"fetch_failed", "save_failed", "details_failed"}

\* the strategy a pending task is at
StrategyAt(st) == CASE st = "new" -> 1 [] st = "aiohttp" -> 2 [] st = "httpx" -> 3

SuspendedAt(i) == Strategies[i]

FirstFrame == [page_number |-> 1, nested |-> FALSE, i |-> 1, caller_links |-> <<>>]

\* the hrefs get_links has read off a page when it looks at the next link
extracted(page) == IF page.hrefs THEN page.links ELSE <<>>

\* a faulty variant: the links are appended once the call for the next page
\* has returned
extend_on_return(links_so_far, page) ==
    IF page.hrefs /\ page.next.t # "int" THEN links_so_far \o page.links ELSE links_so_far

\* a faulty variant: the next link is converted before the links are appended
extend_after_next(links_so_far, page) ==
    IF page.hrefs /\ page.next.t # "text" THEN links_so_far \o page.links ELSE links_so_far

\* self.job_links.extend([i['href'] for i in links]), before the next link is
\* looked at; an anchor without href raises before anything is appended
extend(links_so_far, page) == links_so_far \o extracted(page)

Idle == [site |-> <<>>, i |-> 0, invoked |-> <<>>, ret |-> [k |-> "idle"]]

\* a faulty variant: the next link is looked at under `if links:`
follows_next_if_links(page) ==
    page.hrefs /\ page.links # <<>> /\ page.next.t = "int"

\* `if next_page_link:` with a text int() accepts: get_links awaits itself
\* for that page, whether or not the page had links
follows_next(page) == page.hrefs /\ page.next.t = "int"

\* How the walk ends on a page whose next link is not followed: an exception
\* of the parsing (an anchor without href, a next link that is no integer),
\* or no next link at all
walk_ended(page) ==
    CASE ~page.hrefs -> "parse_error"
      [] page.next.t = "text" -> "parse_error"
      [] page.next.t = "absent" -> "no_next"
      [] page.next.t = "int" -> "next_unfollowed"

----------------------------------------------------------------------------
Init ==
    /\ pc = "load_links"
    /\ q = 1
    /\ walk = FirstFrame
    /\ job_links = <<>>
    /\ tasks = [k \in 1..Len(SKILLS) |-> <<>>]
    /\ csv = initialize_file(NoFile)
    /\ writers = 1
    /\ found = [k \in 1..Len(SKILLS) |-> <<>>]
    /\ walkEnd = [k \in 1..Len(SKILLS) |-> "pending"]
    /\ call = Idle

----------------------------------------------------------------------------
\* run(): `for query in queries`, after the body for SKILLS[q] has ended
next_query ==
    IF q < Len(SKILLS)
    THEN q' = q + 1 /\ pc' = "load_links" /\ walk' = FirstFrame
    ELSE q' = q /\ pc' = "returned" /\ walk' = FirstFrame

\* a faulty variant: the loop body of run() without try/except, the exception
\* leaves run()
run_propagates == q' = q /\ pc' = "raised" /\ walk' = FirstFrame

\* run(): `except Exception` catches what load_links or gather raised, logs
\* it, and the loop goes on
run_except == next_query

\* load_links returns self.job_links to run(), which skips the query when the
\* list is empty and otherwise gathers one process_link task per link.
gather_links(loaded) ==
    IF loaded = <<>>
    THEN next_query /\ tasks' = tasks
    ELSE /\ pc' = "gather" /\ q' = q /\ walk' = FirstFrame
         /\ tasks' = [tasks EXCEPT ![q] =
                [n \in 1..Len(loaded) |-> [link |-> loaded[n], st |-> "new"]]]

\* get_links: a strategy of the page fetch returned nothing, the next one is
\* awaited
GetPageNextStrategy ==
    /\ pc = "load_links"
    /\ \E content \in PageResults :
         LET r == fetch_step(walk.i, content) IN
         /\ r.k = "next"
         /\ walk' = [walk EXCEPT !.i = r.i]
    /\ UNCHANGED <<writers, pc, q, job_links, tasks, csv, found, walkEnd, call>>

\* get_links: the page is fetched, its links are appended and its next link
\* names the page get_links recurses to
GetLinksRecurse ==
    /\ pc = "load_links"
    /\ \E content \in PageResults, page \in Served :
         /\ fetch_step(walk.i, content).k = "return"
         /\ follows_next(page)
         /\ job_links' = extend(job_links, page)
         /\ found' = [found EXCEPT ![q] = @ \o extracted(page)]
         /\ walk' = [page_number |-> page.next.n, nested |-> TRUE, i |-> 1,
                     caller_links |-> page.links]
    /\ UNCHANGED <<writers, pc, q, tasks, csv, walkEnd, call>>

\* get_links: the page is fetched and the walk ends on it: no next link
\* ("no_next"), or an exception while parsing ("parse_error": an anchor
\* without href, before the links are appended, or a next link whose text is
\* no integer, after); the except clause logs it, every frame returns
GetLinksEnd ==
    /\ pc = "load_links"
    /\ \E content \in PageResults, page \in Served :
         /\ fetch_step(walk.i, content).k = "return"
         /\ ~follows_next(page)
         /\ job_links' = extend(job_links, page)
         /\ found' = [found EXCEPT ![q] = @ \o extracted(page)]
         /\ walkEnd' = [walkEnd EXCEPT ![q] = walk_ended(page)]
         /\ gather_links(extend(job_links, page))
    /\ UNCHANGED <<writers, csv, call>>

\* get_links: every strategy failed and fetch raised.  The except clause logs
\* it and reads `response`, which was never bound: the UnboundLocalError
\* leaves this frame.  The frame that awaited it catches it, logs and
\* returns; from the first frame it leaves load_links and run() catches it.
GetLinksFetchFailed ==
    /\ pc = "load_links"
    /\ \E content \in PageResults : fetch_step(walk.i, content).k = "raise"
    /\ walkEnd' = [walkEnd EXCEPT ![q] = "fetch_failed"]
    /\ IF walk.nested THEN gather_links(job_links) ELSE run_except /\ tasks' = tasks
    /\ UNCHANGED <<writers, job_links, csv, found, call>>

----------------------------------------------------------------------------
\* process_link(link), resumed at state st until it suspends again or ends:
\* the strategy it awaited returned content; page is what the body holds;
\* io is what the append to the file does.  An exception of fetch, of
\* get_details or of save_row leaves the task.
process_link(st, link, content, page, io) ==
    LET r == fetch_step(StrategyAt(st), content) IN
    CASE r.k = "next" -> [st |-> SuspendedAt(r.i), rows |-> <<>>]
      [] r.k = "raise" -> [st |-> "fetch_failed", rows |-> <<>>]
      [] r.k = "return" ->
            LET details == get_details(link, page) IN
            CASE details.t = "raise" -> [st |-> "details_failed", rows |-> <<>>]
              [] details.t = "None" -> [st |-> "nodata", rows |-> <<>>]
              [] details.t = "dict" ->
                    IF io = "ok" THEN [st |-> "appended", rows |-> <<details>>]
                    ELSE [st |-> "save_failed", rows |-> <<>>]

\* The event loop runs task n of tasks[k].  The tasks of one gather take
\* their first step in the order gather created them.
ProcessLink(k, n) ==
    /\ pc # "closed"
    /\ n \in 1..Len(tasks[k])
    /\ tasks[k][n].st \in Pending
    /\ tasks[k][n].st = "new" => \A m \in 1..(n - 1) : tasks[k][m].st # "new"
    /\ \E content \in PageResults :
       \E page \in IF Truthy(content) THEN DetailPages ELSE {NoPage} :
       \E io \in IF Truthy(content) /\ page.ld_json = "complete" THEN {"ok", "IOError"} ELSE {"ok"} :
         LET o == process_link(tasks[k][n].st, tasks[k][n].link, content, page, io) IN
         /\ tasks' = [tasks EXCEPT ![k][n].st = o.st]
         /\ csv' = IF o.rows = <<>> THEN csv ELSE save_row(csv, o.rows[1])
    /\ UNCHANGED <<writers, pc, q, walk, job_links, found, walkEnd, call>>

\* asyncio.gather(*tasks) returns: every task has ended, none raised
GatherReturn ==
    /\ pc = "gather"
    /\ \A n \in 1..Len(tasks[q]) : tasks[q][n].st \notin Pending \cup Raised
    /\ next_query
    /\ UNCHANGED <<writers, job_links, tasks, csv, found, walkEnd, call>>

\* asyncio.gather(*tasks) raises the first exception of a task to run(),
\* which logs it and goes on; the other tasks are left running
GatherRaise ==
    /\ pc = "gather"
    /\ \E n \in 1..Len(tasks[q]) : tasks[q][n].st \in Raised
    /\ \A n \in 1..Len(tasks[q]) : tasks[q][n].st # "new"
    /\ run_except
    /\ UNCHANGED <<writers, job_links, tasks, csv, found, walkEnd, call>>

\* asyncio.run(main()): main has returned, the tasks still pending are
\* cancelled and the loop is closed
Close ==
    /\ pc = "returned"
    /\ pc' = "closed"
    /\ tasks' = [k \in DOMAIN tasks |-> [n \in DOMAIN tasks[k] |->
            IF tasks[k][n].st \in Pending
            THEN [tasks[k][n] EXCEPT !.st = "cancelled"] ELSE tasks[k][n]]]
    /\ UNCHANGED <<writers, q, walk, job_links, csv, found, walkEnd, call>>

Next ==
    \/ GetPageNextStrategy
    \/ GetLinksRecurse
    \/ GetLinksEnd
    \/ GetLinksFetchFailed
    \/ \E k \in 1..Len(SKILLS), n \in 1..MaxTasks : ProcessLink(k, n)
    \/ GatherReturn
    \/ GatherRaise
    \/ Close

Spec == Init /\ [][Next]_vars

\* the event loop keeps running whatever is ready
FairSpec == Spec /\ WF_vars(Next)

----------------------------------------------------------------------------
\* HTTPClient.fetch alone: a call is made against a site that fixes what each
\* strategy would return, and the loop is followed one strategy at a time.
FetchCall ==
    /\ call.ret.k # "pending"
    /\ \E site \in [1..Len(Strategies) -> StrategyResults] :
         call' = [site |-> site, i |-> 1, invoked |-> <<>>, ret |-> [k |-> "pending"]]
    /\ UNCHANGED <<writers, pc, q, walk, job_links, tasks, csv, found, walkEnd>>

FetchTry ==
    /\ call.ret.k = "pending"
    /\ LET r == fetch_step(call.i, call.site[call.i]) IN
       call' = [call EXCEPT !.invoked = Append(@, Strategies[call.i]),
                            !.i = IF r.k = "next" THEN r.i ELSE @,
                            !.ret = IF r.k = "next" THEN @ ELSE r]
    /\ UNCHANGED <<writers, pc, q, walk, job_links, tasks, csv, found, walkEnd>>

FetchNext == FetchCall \/ FetchTry

FetchSpec == Init /\ [][FetchNext]_vars

----------------------------------------------------------------------------
\* The CSV sink alone: CSVWriter objects are constructed on one path, which
\* holds no file at first, and rows are saved through them, over any number
\* of runs of the program.
SinkInit ==
    /\ pc = "closed"
    /\ q = 1
    /\ walk = FirstFrame
    /\ job_links = <<>>
    /\ tasks = [k \in 1..Len(SKILLS) |-> <<>>]
    /\ csv = NoFile
    /\ writers = 0
    /\ found = [k \in 1..Len(SKILLS) |-> <<>>]
    /\ walkEnd = [k \in 1..Len(SKILLS) |-> "pending"]
    /\ call = Idle

CSVWriterInit ==
    /\ writers < MaxWriters
    /\ writers' = writers + 1
    /\ csv' = initialize_file(csv)
    /\ UNCHANGED <<pc, q, walk, job_links, tasks, found, walkEnd, call>>

CSVWriterSaveRow ==
    /\ writers >= 1
    /\ Len(csv.lines) <= MaxRows
    /\ \E url \in Urls, page \in DetailPages :
         /\ page.ld_json = "complete"
         /\ csv' = save_row(csv, try_block(url, page))
    /\ UNCHANGED <<pc, q, walk, job_links, tasks, writers, found, walkEnd, call>>

SinkNext == CSVWriterInit \/ CSVWriterSaveRow

SinkSpec == SinkInit /\ [][SinkNext]_vars

----------------------------------------------------------------------------
\* Notions the properties are stated with

Queries == 1..Len(SKILLS)

\* the links run() handed to the Detail Pipeline for query k
Forwarded(k) == [n \in 1..Len(tasks[k]) |-> tasks[k][n].link]

Ended(k, kinds) == {n \in 1..Len(tasks[k]) : tasks[k][n].st \in kinds}

NoDuplicates(s) == \A i, j \in 1..Len(s) : s[i] = s[j] => i = j

\* the records in the output file
Records == SubSeq(csv.lines, 2, Len(csv.lines))

NonEmptyBody(content) == content \in {Str(s) : s \in Texts \ {""}}

CallMade == call.ret.k # "idle"

----------------------------------------------------------------------------
\* C1: when the run has completed, a LinkSet of N links of which F failed in
\* the detail fetch or in the extraction (and none in the Sink) has got
\* exactly N - F appends: every link that did not fail has its record.
C1_AppendsAreLinksMinusFailures ==
    pc = "closed" =>
        \A k \in Queries :
            NoDuplicates(Forwarded(k)) /\ Ended(k, {"save_failed"}) = {} =>
                Cardinality(Ended(k, {"appended"}))
                    = Len(tasks[k]) - Cardinality(Ended(k, {"fetch_failed", "nodata"}))

\* C2: run() leaves the gather of a query only when every per-link task of
\* that query has resolved; none of them is still pending.
C2_GatherEndsWhenAllResolved ==
    [][pc = "gather" /\ pc' # "gather" => Ended(q, Pending) = {}]_vars

\* C3: the links forwarded to the Detail Pipeline for a query are links
\* extracted from the listing pages of that query's own walk.
C3_LinkSetOwnedByCrawl ==
    \A k \in Queries : Range(Forwarded(k)) \subseteq Range(found[k])

\* C4: in a run where every walk ends on a page without next link, no page
\* repeats a link and every task appends its record, the Sink has received
\* one record per link found on the listing pages.
C4_OneRecordPerLink ==
    (/\ pc = "closed"
     /\ \A k \in Queries : walkEnd[k] = "no_next"
     /\ \A k \in Queries : Ended(k, {"appended"}) = DOMAIN tasks[k]
     /\ NoDuplicates(job_links))
    => LET total[k \in 0..Len(SKILLS)] ==
               IF k = 0 THEN 0 ELSE total[k - 1] + Len(found[k])
       IN Len(Records) = total[Len(SKILLS)]

\* C5: fetch invokes the strategies in the declared order, invokes a
\* strategy only after every strategy before it returned None or an empty
\* body, and returns the body of the first strategy that yields a non-empty
\* one, no later strategy having been invoked.
C5_FirstNonEmptyInOrder ==
    CallMade =>
        /\ Len(call.invoked) <= Len(Strategies)
        /\ \A j \in 1..Len(call.invoked) :
             /\ call.invoked[j] = Strategies[j]
             /\ \A h \in 1..(j - 1) : ~NonEmptyBody(call.site[h])
        /\ \A j \in 1..Len(Strategies) :
             (NonEmptyBody(call.site[j]) /\ \A h \in 1..(j - 1) : ~NonEmptyBody(call.site[h]))
             => /\ Len(call.invoked) <= j
                /\ Len(call.invoked) = j => call.ret = [k |-> "return", content |-> call.site[j]]
        /\ call.ret.k = "return" => NonEmptyBody(call.site[Len(call.invoked)])

\* the second strategy's body is returned, the third one's is another
C5_Witness ==
    /\ CallMade
    /\ call.ret.k = "return"
    /\ call.invoked = <<"tls", "aiohttp">>
    /\ NonEmptyBody(call.site[3])
    /\ call.site[3] # call.ret.content

\* C6: when every strategy hits a transport error or returns an empty body,
\* fetch ends raising and produces no body; what fetch returns is never an
\* empty body.
C6_ExhaustedRaises ==
    CallMade =>
        /\ call.ret.k = "return" => NonEmptyBody(call.ret.content)
        /\ (call.ret.k # "pending" /\ \A j \in 1..Len(Strategies) : ~NonEmptyBody(call.site[j]))
           => call.ret = [k |-> "raise"]

\* a transport error, an empty body, a transport error: fetch has raised
C6_Witness ==
    /\ CallMade
    /\ call.site = <<None, Str(""), None>>
    /\ call.ret.k = "raise"

\* C7: when the fetch of a listing page of a query fails all strategies, the
\* links forwarded to the Detail Pipeline for that query are exactly the
\* links extracted from the pages before it, and every later query is
\* crawled.
C7_FailedPageTruncates ==
    \A k \in Queries :
        walkEnd[k] = "fetch_failed" =>
            /\ tasks[k] # <<>> => Forwarded(k) = found[k]
            /\ pc = "closed" => \A h \in Queries : walkEnd[h] # "pending"

\* C8: a Sink failure on one record does not abort the other links of the
\* same LinkSet: when the run has completed, none of them was cancelled.
C8_SinkFailureIsolated ==
    pc = "closed" =>
        \A k \in Queries :
            (/\ NoDuplicates(Forwarded(k))
             /\ Ended(k, {"save_failed"}) # {}
             /\ Ended(k, {"fetch_failed"}) = {})
            => Ended(k, {"cancelled"}) = {}

\* C9: a task whose extraction fails ends with no data: nothing is appended
\* to the Sink in that step, no exception leaves the task (the extraction is
\* never what makes a task raise), and neither run() nor any other task is
\* touched by it.
C9_ExtractionFailureDropsLink ==
    [][\A k \in Queries : \A n \in 1..Len(tasks[k]) :
          /\ tasks'[k][n].st # "details_failed"
          /\ (tasks[k][n].st \in Pending /\ tasks'[k][n].st = "nodata")
             => /\ csv' = csv
                /\ pc' = pc /\ q' = q
                /\ \A h \in Queries : \A m \in 1..Len(tasks[h]) :
                     <<h, m>> # <<k, n>> => tasks'[h][m] = tasks[h][m]]_vars

\* one link of a LinkSet was dropped for want of data, another one of the
\* same LinkSet got its record after that
C9_Witness ==
    \E k \in Queries : \E n, m \in 1..Len(tasks[k]) :
        /\ n < m
        /\ tasks[k][n].st = "nodata"
        /\ tasks[k][m].st = "appended"
        /\ Records # <<>> /\ Records[Len(Records)].PostUrl = tasks[k][m].link
        /\ pc = "closed"

\* C10: the pagination walk of every query terminates, whatever the listing
\* site serves.
C10_WalkTerminates ==
    \A k \in Queries : (pc = "load_links" /\ q = k) ~> ~(pc = "load_links" /\ q = k)

\* C11: within one walk that starts at page 1, every page get_links goes on
\* to has a number strictly above the page it was read on, so pages are
\* visited in strictly increasing order and none is fetched twice, whatever
\* next links the listing pages carry.
C11_PagesStrictlyIncrease ==
    [][(pc = "load_links" /\ pc' = "load_links" /\ q' = q
            /\ walk' # walk /\ walk'.i = 1)
          => walk'.page_number > walk.page_number]_vars

\* the step in which get_links goes on to the next page of the walk
NextPageStarts ==
    /\ pc = "load_links" /\ pc' = "load_links" /\ q' = q
    /\ walk' # walk /\ walk'.i = 1

IsSuffix(s, of) ==
    Len(s) <= Len(of) /\ SubSeq(of, Len(of) - Len(s) + 1, Len(of)) = s

\* C12: the page fetches of one walk are strictly sequential.  The fetch of
\* the next page starts in the step that appended the links of the current
\* page and read its next link, never earlier; while it is in flight the
\* links of the page that named it are the last ones of the LinkSet; and
\* there is one frame fetching at a time, none outside load_links.
C12_PageFetchesSequential ==
    /\ [](pc = "load_links" => IsSuffix(walk.caller_links, job_links))
    /\ [](pc # "load_links" => walk = FirstFrame)
    /\ [][NextPageStarts =>
            /\ walk'.nested
            /\ job_links' = job_links \o walk'.caller_links
            /\ found' = [found EXCEPT ![q] = @ \o walk'.caller_links]]_vars

\* the first page carried a link and a next link, the fetch of the page it
\* named has fallen back to the second strategy
C12_Witness ==
    /\ pc = "load_links" /\ walk.nested /\ walk.i = 2
    /\ walk.caller_links # <<>>
    /\ job_links = walk.caller_links

\* C13: the LinkSet never holds a link twice, neither while the walk appends
\* to it nor in the list load_links hands to run(), also when the site lists
\* the same link more than once.
C13_LinkSetHasNoDuplicates ==
    /\ NoDuplicates(job_links)
    /\ \A k \in Queries : NoDuplicates(Forwarded(k))

\* C14: whatever fails -- listing fetches, detail fetches, extraction, the
\* Sink -- no exception leaves run(): run() is in its loop or has returned,
\* it takes the queries in the configured order, one walk each, and when it
\* has returned every query has had its walk.
C14_RunSurvivesEveryFailure ==
    /\ [](pc \in {"load_links", "gather", "returned", "closed"})
    /\ [](\A k \in Queries :
            /\ k < q => walkEnd[k] # "pending"
            /\ k > q => walkEnd[k] = "pending" /\ tasks[k] = <<>>)
    /\ [](pc \in {"returned", "closed"} => q = Len(SKILLS) /\ walkEnd[q] # "pending")
    /\ [][q' = q \/ (q' = q + 1 /\ pc' = "load_links")]_vars

\* the first page of the first query could not be fetched, and of the tasks
\* of the second query one failed to fetch, one found no data and one failed
\* to save; main() has returned
C14_Witness ==
    /\ pc = "closed"
    /\ walkEnd[1] = "fetch_failed"
    /\ \E n1, n2, n3 \in 1..Len(tasks[2]) :
         /\ tasks[2][n1].st = "fetch_failed"
         /\ tasks[2][n2].st = "nodata"
         /\ tasks[2][n3].st = "save_failed"

Appended(url) ==
    {kn \in Queries \X (1..MaxTasks) :
        /\ kn[2] <= Len(tasks[kn[1]])
        /\ tasks[kn[1]][kn[2]].link = url
        /\ tasks[kn[1]][kn[2]].st = "appended"}

\* C15: the tasks of a gather append to one file concurrently, and under
\* every interleaving the file holds the header and exactly one whole record
\* per task that saved a row: none is lost, none is mixed with another.
C15_ConcurrentAppendsAllKept ==
    /\ csv.exists /\ csv.lines[1] = Header
    /\ \A i \in 1..Len(Records) :
         \E url \in Urls, page \in DetailPages :
             page.ld_json = "complete" /\ Records[i] = try_block(url, page)
    /\ \A url \in Urls :
         Cardinality({i \in 1..Len(Records) : Records[i].PostUrl = url})
             = Cardinality(Appended(url))

\* two tasks of one gather were in flight together and saved their rows in
\* the reverse of the order they were started in
C15_Witness ==
    \E k \in Queries : \E n, m \in 1..Len(tasks[k]) :
        /\ n < m
        /\ tasks[k][n].st = "appended" /\ tasks[k][m].st = "appended"
        /\ tasks[k][n].link # tasks[k][m].link
        /\ Len(Records) = 2
        /\ Records[1].PostUrl = tasks[k][m].link
        /\ Records[2].PostUrl = tasks[k][n].link

IsPrefix(s, of) == Len(s) <= Len(of) /\ SubSeq(of, 1, Len(s)) = s

\* C16: whatever sequence of CSVWriter constructions and save_row calls is
\* made on one path, over one run or several, the file holds exactly one
\* header, as its first line, and constructing a CSVWriter again removes no
\* record: every line written stays where it is.
C16_HeaderOnceRecordsKept ==
    /\ [](writers >= 1 =>
            /\ csv.exists /\ csv.lines # <<>> /\ csv.lines[1] = Header
            /\ \A i \in 2..Len(csv.lines) : csv.lines[i] # Header)
    /\ [][IsPrefix(csv.lines, csv'.lines)]_vars

\* a second CSVWriter was constructed on a path whose file holds records
C16_Witness ==
    /\ writers = 2
    /\ Len(csv.lines) >= 3

\* C17: fetch never retries: within one call no strategy is invoked twice,
\* so at most three attempts are made, and exactly three, one per strategy,
\* when the call ends raising.
C17_NoRetry ==
    CallMade =>
        /\ NoDuplicates(call.invoked)
        /\ Len(call.invoked) <= Len(Strategies)
        /\ call.ret.k = "raise" =>
              Len(call.invoked) = Len(Strategies) /\ Range(call.invoked) = Range(Strategies)

\* an empty body, a transport error, an empty body: three attempts, then
\* fetch has raised
C17_Witness ==
    /\ CallMade
    /\ call.site = <<Str(""), None, Str("")>>
    /\ call.invoked = <<"tls", "aiohttp", "httpx">>
    /\ call.ret.k = "raise"

Unfilled(row) ==
    /\ row.JobID = "" /\ row.Speciality = "" /\ row.Industry = ""
    /\ row.SalaryFrom = "" /\ row.SalaryUpto = "" /\ row.PayoutTerm = ""
    /\ row.IsEstimatedSalary = FALSE

\* C18: the record a task hands to the Sink carries the link of that task as
\* PostUrl, the empty string as JobID, Speciality, Industry, SalaryFrom,
\* SalaryUpto and PayoutTerm, and false as IsEstimatedSalary, whatever the
\* detail page holds, a job reference included.
C18_RecordShape ==
    /\ [](\A i \in 1..Len(Records) : Unfilled(Records[i]))
    /\ [][\A k \in Queries : \A n \in 1..Len(tasks[k]) :
            (tasks[k][n].st \in Pending /\ tasks'[k][n].st = "appended")
            => /\ Len(csv'.lines) = Len(csv.lines) + 1
               /\ IsPrefix(csv.lines, csv'.lines)
               /\ csv'.lines[Len(csv'.lines)].PostUrl = tasks[k][n].link
               /\ Unfilled(csv'.lines[Len(csv'.lines)])]_vars

\* the task of the second link of a LinkSet has handed over the only record
C18_Witness ==
    \E k \in Queries :
        /\ Len(tasks[k]) >= 2
        /\ tasks[k][2].st = "appended"
        /\ tasks[k][1].link # tasks[k][2].link
        /\ Len(Records) = 1
        /\ Records[1].PostUrl = tasks[k][2].link
        /\ Unfilled(Records[1])

\* load_links has returned to run() with the whole of job_links, in the step
\* that ended the walk
ReturnsLinks ==
    IF job_links' = <<>>
    THEN pc' \in {"load_links", "returned"} /\ tasks' = tasks
    ELSE /\ pc' = "gather" /\ q' = q
         /\ [n \in 1..Len(tasks'[q]) |-> tasks'[q][n].link] = job_links'

\* C19: whether the walk goes on depends on the next link alone.  A walk
\* never ends on a page that carries an integer next link; going on from a
\* page without links leaves the LinkSet as it was; and a walk that ends on a
\* page without next link ends normally, the links of that page and of the
\* pages before it are kept and handed to run().
C19_NextLinkAloneDecides ==
    /\ [](\A k \in Queries :
            walkEnd[k] \in {"pending", "no_next", "parse_error", "fetch_failed"})
    /\ [][(NextPageStarts /\ walk'.caller_links = <<>>) => job_links' = job_links]_vars
    /\ [][(walkEnd[q] = "pending" /\ walkEnd'[q] = "no_next")
            => IsPrefix(job_links, job_links') /\ ReturnsLinks]_vars

\* the first page had no links and named page 2, which is being fetched
C19_Witness ==
    /\ pc = "load_links" /\ walk.nested
    /\ walk.page_number = 2
    /\ walk.caller_links = <<>>
    /\ found[q] = <<>>

Concat(ss) ==
    LET cat[k \in 0..Len(ss)] == IF k = 0 THEN <<>> ELSE cat[k - 1] \o ss[k]
    IN cat[Len(ss)]

\* C20: when the parsing of a listing page fails after its links were
\* extracted, the walk ends there and load_links returns normally with
\* every link accumulated so far, the links of that page included: every
\* link extracted from a page is in the LinkSet, and none is removed.
C20_ParseFailureKeepsLinks ==
    /\ [](job_links = Concat(found))
    /\ [][(walkEnd[q] = "pending" /\ walkEnd'[q] = "parse_error")
            => IsPrefix(job_links, job_links') /\ ReturnsLinks]_vars

\* the walk of a query ended on a parsing failure and the links it had
\* extracted are the tasks run() gathers
C20_Witness ==
    /\ pc = "gather"
    /\ walkEnd[q] = "parse_error"
    /\ found[q] # <<>>
    /\ Forwarded(q) = job_links

====
